---- MODULE Spec2Model ----
(***************************************************************************)
(* Model of neural_clbf's obstacle-aware MPC comparison controller         *)
(* (controllers/obs_mpc_controller.py) and of the Quad2D obstacle data     *)
(* module (experiments/quad2d_obstacles/data_generation.py).               *)
(*                                                                         *)
(* Fixed-point conventions.                                                *)
(*  - data_generation.py: every real is held in twentieths (-0.1 is -2,    *)
(*    4.5 is 90, pi is 63, 0.4*pi is 25); a norm bound n is compared as    *)
(*    n*n against the sum of squares.                                      *)
(*  - obs_mpc_controller.py: positions, observed points and x_target are   *)
(*    integers; the matrix P is held as <<a, b, c>> standing for           *)
(*    [[a, b], [b, c]] / 4, so p^T P p >= 1.25 reads Quad4(P, p) >= 5 and  *)
(*    x^T P x <= 0.75 reads Quad4(P, x) <= 3; the heading theta is held    *)
(*    as a number of quarter turns, so that cos and sin are integers.      *)
(*  - Python's None is the empty tuple << >> or the string "None".         *)
(***************************************************************************)
EXTENDS Integers, Sequences, FiniteSets, TLC

VARIABLES
    \* ---- safe_mask_fn / unsafe_mask_fn applied to one point
    pt,               \* the point the masks are evaluated on (6 components)
    mask_pc,          \* "input" | "evaluated"
    safe_mask,        \* result of safe_mask_fn
    unsafe_mask,      \* result of unsafe_mask_fn
    \* ---- Quad2DObstaclesDataModule
    dm_pc,            \* "none" | "failed" | "constructed" | "prepared" | "setup"
    arg_domains,      \* the domains argument of __init__ (<< >> before the call)
    arg_given,        \* FALSE when domains=None was passed
    N_samples,        \* self.N_samples
    split,            \* self.split as <<numerator, denominator>>
    domains,          \* self.domains
    N,                \* self.N
    dataset,          \* self.dataset : TensorDataset.tensors, or << >>
    train_data,       \* self.train_data
    validation_data,  \* self.validation_data
    \* ---- ObsMPCController.u
    dynamics_model,   \* the collaborator: n_dims, n_controls, limits
    pc,               \* "idle" | "loop" | "done"
    x,                \* the batch of states
    obs,              \* get_observations(x): per element, a sequence of K points
    u,                \* the command tensor
    batch_idx,        \* loop index (1-based here, 0-based in the source)
    loc,              \* the locals of the last loop iteration
    outcome,          \* per element: "pending" | "skip1" | "skip2" | "nav"
    nominal_in,       \* per element: the argument u_nominal was called with, or << >>
    nominal_out       \* per element: what u_nominal returned, or << >>

maskVars == <<pt, mask_pc, safe_mask, unsafe_mask>>
dmVars == <<dm_pc, arg_domains, arg_given, N_samples, split, domains, N, dataset,
            train_data, validation_data>>
ctlVars == <<dynamics_model, pc, x, obs, u, batch_idx, loc, outcome, nominal_in,
             nominal_out>>
vars == <<maskVars, dmVars, ctlVars>>

Range(s) == {s[i] : i \in DOMAIN s}

(***************************************************************************)
(* data_generation.py : safe_mask_fn, unsafe_mask_fn                       *)
(***************************************************************************)

\* x.norm(dim=-1) squared
NormSq(p) == p[1]*p[1] + p[2]*p[2] + p[3]*p[3] + p[4]*p[4] + p[5]*p[5] + p[6]*p[6]

\* (the obstacle faces counted as inside)
safe_mask_fn_strict(p) ==
    LET floor_mask == p[2] >= -2
        obs1_mask == (p[1] < -22 \/ p[1] > -8) \/ (p[2] < -10 \/ p[2] > 12)
        obs2_mask == (p[1] < -2 \/ p[1] > 22) \/ (p[2] < 14 \/ p[2] > 30)
        norm_mask == NormSq(p) <= 90 * 90
    IN  floor_mask /\ obs1_mask /\ obs2_mask /\ norm_mask

safe_mask_fn(p) ==
    LET safe_z == -2
        floor_mask == p[2] >= safe_z
        obs1_min_x == -22
        obs1_max_x == -8
        obs1_min_z == -10
        obs1_max_z == 12
        obs1_mask_x == p[1] <= obs1_min_x \/ p[1] >= obs1_max_x
        obs1_mask_z == p[2] <= obs1_min_z \/ p[2] >= obs1_max_z
        obs1_mask == obs1_mask_x \/ obs1_mask_z
        obs2_min_x == -2
        obs2_max_x == 22
        obs2_min_z == 14
        obs2_max_z == 30
        obs2_mask_x == p[1] <= obs2_min_x \/ p[1] >= obs2_max_x
        obs2_mask_z == p[2] <= obs2_min_z \/ p[2] >= obs2_max_z
        obs2_mask == obs2_mask_x \/ obs2_mask_z
        norm_mask == NormSq(p) <= 90 * 90
    IN  ((TRUE /\ floor_mask) /\ obs1_mask) /\ obs2_mask /\ norm_mask

\* (the ground box as wide as the one safe_mask_fn excludes)
unsafe_mask_fn_loose(p) ==
    LET floor_mask == p[2] <= -6
        obs1_mask == (p[1] >= -22 /\ p[1] <= -8) /\ (p[2] >= -10 /\ p[2] <= 12)
        obs2_mask == (p[1] >= 0 /\ p[1] <= 20) /\ (p[2] >= 16 /\ p[2] <= 28)
        norm_mask == NormSq(p) >= 100 * 100
    IN  floor_mask \/ obs1_mask \/ obs2_mask \/ norm_mask

unsafe_mask_fn(p) ==
    LET unsafe_z == -6
        floor_mask == p[2] <= unsafe_z
        obs1_min_x == -20
        obs1_max_x == -10
        obs1_min_z == -8
        obs1_max_z == 10
        obs1_mask_x == p[1] >= obs1_min_x /\ p[1] <= obs1_max_x
        obs1_mask_z == p[2] >= obs1_min_z /\ p[2] <= obs1_max_z
        obs1_mask == obs1_mask_x /\ obs1_mask_z
        obs2_min_x == 0
        obs2_max_x == 20
        obs2_min_z == 16
        obs2_max_z == 28
        obs2_mask_x == p[1] >= obs2_min_x /\ p[1] <= obs2_max_x
        obs2_mask_z == p[2] >= obs2_min_z /\ p[2] <= obs2_max_z
        obs2_mask == obs2_mask_x /\ obs2_mask_z
        norm_mask == NormSq(p) >= 100 * 100
    IN  ((FALSE \/ floor_mask) \/ obs1_mask) \/ obs2_mask \/ norm_mask

\* The points the masks are evaluated on: a grid of (x, z) in twentieths
\* that covers both boxes, their faces, the buffer between the safe and the
\* unsafe faces and the floor thresholds, and a vx component that puts the
\* norm below, on and above 4.5 and 5.0.
MaskXs == -24 .. 24
MaskZs == -12 .. 32
MaskVxs == {0, 89, 90, 91, 100}
MaskPoints == {<<px, pz, 0, vx, 0, 0>> : px \in MaskXs, pz \in MaskZs, vx \in MaskVxs}

MaskIdle ==
    /\ pt = <<0, 0, 0, 0, 0, 0>>
    /\ mask_pc = "input"
    /\ safe_mask = FALSE
    /\ unsafe_mask = FALSE

InitMask ==
    /\ pt \in MaskPoints
    /\ mask_pc = "input"
    /\ safe_mask = FALSE
    /\ unsafe_mask = FALSE

\* safe_mask = safe_mask_fn(x); unsafe_mask = unsafe_mask_fn(x)
EvaluateMasks ==
    /\ mask_pc = "input"
    /\ safe_mask' = safe_mask_fn(pt)
    /\ unsafe_mask' = unsafe_mask_fn(pt)
    /\ mask_pc' = "evaluated"
    /\ UNCHANGED pt
    /\ UNCHANGED <<dmVars, ctlVars>>

(***************************************************************************)
(* data_generation.py : Quad2DObstaclesDataModule                          *)
(***************************************************************************)

\* Quad2D.N_DIMS, the number of intervals of each default domain
N_DIMS == 6

\* The two default domains of __init__ (twentieths; pi held as 63)
DefaultDomains ==
    << << <<-80, 80>>, <<-80, 80>>, <<-63, 63>>, <<-200, 200>>, <<-200, 200>>, <<-63, 63>> >>,
       << <<-10, 10>>, <<-10, 10>>, <<-25, 25>>, <<-20, 20>>, <<-20, 20>>, <<-63, 63>> >> >>

\* Domains a caller may supply: two well-formed ones (the second straddles
\* the faces of the ground obstacle), one with an interval missing and one
\* with an interval too many.
GoodDomainA == DefaultDomains[2]
GoodDomainB == << <<-22, -6>>, <<-10, 14>>, <<0, 0>>, <<0, 4>>, <<0, 0>>, <<0, 0>> >>
ShortDomain == SubSeq(GoodDomainA, 1, 5)
LongDomain == Append(GoodDomainA, <<0, 20>>)
SuppliedDomainLists ==
    { <<GoodDomainA>>, <<GoodDomainB, GoodDomainA>>, <<ShortDomain>>,
      <<GoodDomainA, LongDomain>>, <<ShortDomain, GoodDomainB>> }

\* The largest N_samples tried
MaxSamples == 2
\* self.split values tried, as <<numerator, denominator>>
Splits == { <<0, 1>>, <<1, 10>>, <<1, 2>>, <<1, 1>> }

\* uniform_(0.0, 1.0) draws tried for a row, in halves: every component 0,
\* or every component 1/2
Draws == {0, 1}

\* (only the first domain is checked)
DomainsAcceptedFirstOnly(ds) == Len(ds[1]) = N_DIMS

\* the loop "for domain in domains: assert len(domain) == self.n_dims"
DomainsAccepted(ds) == \A d \in 1 .. Len(ds) : Len(ds[d]) = N_DIMS

\* x_sample[:, i] * (max_val - min_val) + min_val for one row
ScaleRow(domain, draw) ==
    [i \in 1 .. N_DIMS |-> (draw * (domain[i][2] - domain[i][1])) \div 2 + domain[i][1]]

\* tensor[lo:hi] on the first axis, Python slice bounds (0-based, hi excluded)
Slice(t, lo, hi) == SubSeq(t, lo + 1, hi)

\* TensorDataset.__getitem__(slice): tuple(tensor[index] for tensor in self.tensors)
TensorDatasetGetItem(ds, lo, hi) == [k \in 1 .. Len(ds) |-> Slice(ds[k], lo, hi)]

\* int(self.N * self.split) for a split fraction in [0, 1]
SplitPt(n, s) == (n * s[1]) \div s[2]

DmIdle ==
    /\ dm_pc = "none"
    /\ arg_domains = << >>
    /\ arg_given = FALSE
    /\ N_samples = 0
    /\ split = <<0, 1>>
    /\ domains = << >>
    /\ N = 0
    /\ dataset = << >>
    /\ train_data = << >>
    /\ validation_data = << >>

\* __init__ with domains=None
ConstructDefault ==
    /\ dm_pc = "none"
    /\ \E n \in 1 .. MaxSamples, s \in Splits :
        /\ N_samples' = n
        /\ split' = s
        /\ N' = Len(DefaultDomains) * n
    /\ arg_given' = FALSE
    /\ domains' = DefaultDomains
    /\ dm_pc' = "constructed"
    /\ UNCHANGED <<arg_domains, dataset, train_data, validation_data>>
    /\ UNCHANGED <<maskVars, ctlVars>>

\* __init__ with a supplied list, every assert passing
ConstructSupplied ==
    /\ dm_pc = "none"
    /\ \E n \in 1 .. MaxSamples, s \in Splits, ds \in SuppliedDomainLists :
        /\ DomainsAccepted(ds)
        /\ arg_domains' = ds
        /\ N_samples' = n
        /\ split' = s
        /\ domains' = ds
        /\ N' = Len(ds) * n
    /\ arg_given' = TRUE
    /\ dm_pc' = "constructed"
    /\ UNCHANGED <<dataset, train_data, validation_data>>
    /\ UNCHANGED <<maskVars, ctlVars>>

\* __init__ with a supplied list, an assert failing: AssertionError leaves
\* __init__ before self.domains and self.N are set, and no object is returned
ConstructRejected ==
    /\ dm_pc = "none"
    /\ \E n \in 1 .. MaxSamples, s \in Splits, ds \in SuppliedDomainLists :
        /\ ~DomainsAccepted(ds)
        /\ arg_domains' = ds
        /\ N_samples' = n
        /\ split' = s
    /\ arg_given' = TRUE
    /\ dm_pc' = "failed"
    /\ UNCHANGED <<domains, N, dataset, train_data, validation_data>>
    /\ UNCHANGED <<maskVars, ctlVars>>

\* prepare_data: callable on a constructed object only; the training
\* framework calls it once, before setup
prepare_data ==
    /\ dm_pc = "constructed"
    /\ \E draws \in [1 .. Len(domains) * N_samples -> Draws] :
        LET xs == [r \in 1 .. Len(domains) * N_samples |->
                      ScaleRow(domains[((r - 1) \div N_samples) + 1], draws[r])]
            safe == [r \in 1 .. Len(xs) |-> safe_mask_fn(xs[r])]
            unsafe == [r \in 1 .. Len(xs) |-> unsafe_mask_fn(xs[r])]
        IN  dataset' = <<xs, safe, unsafe>>
    /\ dm_pc' = "prepared"
    /\ UNCHANGED <<arg_domains, arg_given, N_samples, split, domains, N, train_data,
                   validation_data>>
    /\ UNCHANGED <<maskVars, ctlVars>>

\* setup: reads self.dataset, so it follows prepare_data
setup ==
    /\ dm_pc \in {"prepared", "setup"}
    /\ LET split_pt == SplitPt(N, split)
       IN  /\ train_data' = TensorDatasetGetItem(dataset, split_pt, Len(dataset[1]))
           /\ validation_data' = TensorDatasetGetItem(dataset, 0, split_pt)
    /\ dm_pc' = "setup"
    /\ UNCHANGED <<arg_domains, arg_given, N_samples, split, domains, N, dataset>>
    /\ UNCHANGED <<maskVars, ctlVars>>

(***************************************************************************)
(* obs_mpc_controller.py : ObsMPCController.u                              *)
(***************************************************************************)

\* The largest batch size tried
MaxBatch == 2
\* The largest number K of observed points per element tried
MaxK == 2
\* Entries a, c of a candidate P lie in 0 .. PMax, b in -PMax .. PMax (quarters)
PMax == 3
\* Coordinates of a candidate x_target lie in -XMax .. XMax
XMax == 2

\* The dynamics models tried: a 3-state one (a planar lidar robot) and a
\* 4-state one, with control limits that do and do not contain zero.
DynamicsModels ==
    { [n_dims |-> 3, n_controls |-> 2, upper |-> <<2, 2>>, lower |-> <<-2, -2>>],
      [n_dims |-> 4, n_controls |-> 2, upper |-> <<3, 1>>, lower |-> <<1, -1>>] }

\* self.dynamics_model.control_limits, in the order u() unpacks it
control_limits(dm) == <<dm.upper, dm.lower>>

\* What u_nominal may return for one row (n_controls = 2). The nominal
\* controller is a collaborator: any of these may come back for any argument,
\* the 3-component x_shifted of a model with more than 3 states included.
NominalOutputs == { <<-3, 4>>, <<1, -1>> }

\* States tried for a batch element: <<px, pz, theta, rest...>>
BaseStates == { <<0, 0, 0>>, <<3, -1, 1>>, <<-2, 2, 3>> }
States(n_dims) == {[i \in 1 .. n_dims |-> IF i <= 3 THEN s[i] ELSE 4 + i] : s \in BaseStates}

\* Observed points: K returns on a ring of radius 2 around the robot, or
\* the same with the first return on the robot itself
RingPoint(k) ==
    CASE k % 4 = 1 -> <<2, 0>>
      [] k % 4 = 2 -> <<0, 2>>
      [] k % 4 = 3 -> <<-2, 0>>
      [] OTHER -> <<0, -2>>
RingObs(K) == [k \in 1 .. K |-> RingPoint(k)]
TouchObs(K) == [k \in 1 .. K |-> IF k = 1 THEN <<0, 0>> ELSE RingPoint(k)]
ObsSets(K) == {RingObs(K), TouchObs(K)}

\* np.cos(theta), np.sin(theta) for theta a number of quarter turns
Cos(t) == CASE t % 4 = 0 -> 1 [] t % 4 = 2 -> -1 [] OTHER -> 0
Sin(t) == CASE t % 4 = 1 -> 1 [] t % 4 = 3 -> -1 [] OTHER -> 0

\* rotation_mat @ v
Rotate(t, v) == <<Cos(t) * v[1] - Sin(t) * v[2], Sin(t) * v[1] + Cos(t) * v[2]>>

\* 4 * cp.quad_form(v, P) for P = [[a, b], [b, c]] / 4
Quad4(P, v) == P[1] * v[1] * v[1] + 2 * P[2] * v[1] * v[2] + P[3] * v[2] * v[2]

Trace4(P) == P[1] + P[3]
Det16(P) == P[1] * P[3] - P[2] * P[2]

PGrid == {<<a, b, c>> : a \in 0 .. PMax, b \in -PMax .. PMax, c \in 0 .. PMax}
XGrid == {<<x1, x2>> : x1 \in -XMax .. XMax, x2 \in -XMax .. XMax}

\* (the last observed point is left out)
Stage1ConstraintsSkipLast(batch_obs) ==
    <<[kind |-> "psd", data |-> << >>]>> \o
    [k \in 1 .. (IF Len(batch_obs) = 0 THEN 0 ELSE Len(batch_obs) - 1) |->
        [kind |-> "obs", data |-> batch_obs[k]]]

\* constraints = [P >> 0] and, for each column of batch_obs,
\* cp.quad_form(o_i, P) >= 1.25
Stage1Constraints(batch_obs) ==
    <<[kind |-> "psd", data |-> << >>]>> \o
    [k \in 1 .. Len(batch_obs) |-> [kind |-> "obs", data |-> batch_obs[k]]]

\* Whether a value of the variable a constraint mentions satisfies it: "psd"
\* and "obs" constrain P, "target" constrains x_target (its matrix is data)
Satisfies(c, v) ==
    CASE c.kind = "psd" -> v[1] >= 0 /\ v[3] >= 0 /\ Det16(v) >= 0
      [] c.kind = "obs" -> Quad4(v, c.data) >= 5
      [] c.kind = "target" -> Quad4(c.data, v) <= 3

ConstraintVariable(c) == IF c.kind = "target" THEN "x_target" ELSE "P"

\* Whether value v of variable var satisfies every constraint on var
SatisfiesAll(cs, var, v) ==
    \A k \in 1 .. Len(cs) : ConstraintVariable(cs[k]) = var => Satisfies(cs[k], v)

\* The cvxpy variables a problem ranges over: those of its constraints and
\* of its objective
ProblemVariables(cs, objective_vars) ==
    objective_vars \cup
    {ConstraintVariable(cs[k]) : k \in 1 .. Len(cs)}

\* Stage 1: maximize log_det(P) - 100 trace(P). log_det needs det > 0; on
\* the quarter grid one step of trace weighs 25, more than any difference of
\* log det, so the order is: smaller trace first, then larger determinant.
Stage1Feasible(cs) == {P \in PGrid : Det16(P) > 0 /\ SatisfiesAll(cs, "P", P)}
Stage1Optimal(cs) ==
    LET feasible == Stage1Feasible(cs)
    IN  {P \in feasible :
            \A Q \in feasible :
                \/ Trace4(P) < Trace4(Q)
                \/ Trace4(P) = Trace4(Q) /\ Det16(P) >= Det16(Q)}

\* Stage 2: minimize sum_squares(batch_x + rotation_mat @ x_target) under
\* the constraints handed to the problem. No constraint mentions both
\* variables, so a point is feasible when it satisfies the constraints on
\* x_target and some P satisfies the constraints on P.
Objective2(bx, t, xt) ==
    LET r == Rotate(t, xt)
    IN  (bx[1] + r[1]) * (bx[1] + r[1]) + (bx[2] + r[2]) * (bx[2] + r[2])
Stage2Feasible(cs) ==
    IF \E P \in PGrid : SatisfiesAll(cs, "P", P)
    THEN {xt \in XGrid : SatisfiesAll(cs, "x_target", xt)}
    ELSE {}
Stage2Optimal(cs, bx, t) ==
    LET feasible == Stage2Feasible(cs)
    IN  {xt \in feasible :
            \A yt \in feasible : Objective2(bx, t, xt) <= Objective2(bx, t, yt)}

\* prob.status after prob.solve(): "infeasible" when nothing satisfies the
\* constraints; otherwise the solver may certify its answer ("optimal") or
\* not ("optimal_inaccurate")
Statuses(feasible) ==
    IF feasible = {} THEN {"infeasible"} ELSE {"optimal", "optimal_inaccurate"}

\* u[:, 0] *= 2.0 on one row
ScaleRow0(row) == [j \in 1 .. Len(row) |-> IF j = 1 THEN 2 * row[j] ELSE row[j]]

Max(a, b) == IF a >= b THEN a ELSE b
Min(a, b) == IF a <= b THEN a ELSE b

\* (the lower limit is not applied)
ClampUpperOnly(row, lo, hi) == [j \in 1 .. Len(row) |-> Min(row[j], hi[j])]

\* torch.clamp(row, lo, hi) = min(max(row, lo), hi), limits broadcast over rows
Clamp(row, lo, hi) == [j \in 1 .. Len(row) |-> Min(Max(row[j], lo[j]), hi[j])]

Zeros(n) == [j \in 1 .. n |-> 0]

NoLocals ==
    [status1 |-> "None", P_opt |-> << >>, status2 |-> "None", x_target_opt |-> << >>,
     x_shifted |-> << >>, constraints |-> << >>, variables |-> {}]

CtlIdle ==
    /\ dynamics_model = [n_dims |-> 3, n_controls |-> 2, upper |-> <<2, 2>>, lower |-> <<-2, -2>>]
    /\ pc = "idle"
    /\ x = << >>
    /\ obs = << >>
    /\ u = << >>
    /\ batch_idx = 0
    /\ loc = NoLocals
    /\ outcome = << >>
    /\ nominal_in = << >>
    /\ nominal_out = << >>

\* __init__: the controller holds its dynamics model; u has not been called
InitCtl ==
    /\ dynamics_model \in DynamicsModels
    /\ pc = "idle"
    /\ x = << >>
    /\ obs = << >>
    /\ u = << >>
    /\ batch_idx = 0
    /\ loc = NoLocals
    /\ outcome = << >>
    /\ nominal_in = << >>
    /\ nominal_out = << >>

\* u(x) up to the loop: obs = get_observations(x); u = zeros(batch_size, n_controls)
Call ==
    /\ pc = "idle"
    /\ \E B \in 1 .. MaxBatch, K \in 0 .. MaxK :
        /\ x' \in [1 .. B -> States(dynamics_model.n_dims)]
        /\ obs' \in [1 .. B -> ObsSets(K)]
        /\ u' = [i \in 1 .. B |-> Zeros(dynamics_model.n_controls)]
        /\ outcome' = [i \in 1 .. B |-> "pending"]
        /\ nominal_in' = [i \in 1 .. B |-> << >>]
        /\ nominal_out' = [i \in 1 .. B |-> << >>]
    /\ batch_idx' = 1
    /\ loc' = NoLocals
    /\ pc' = "loop"
    /\ UNCHANGED dynamics_model
    /\ UNCHANGED <<maskVars, dmVars>>

\* The locals of the iteration at batch_idx
batch_obs == obs[batch_idx]
batch_x == <<x[batch_idx][1], x[batch_idx][2]>>
theta == x[batch_idx][3]
constraints1 == Stage1Constraints(batch_obs)
TargetConstraint(P_opt) == [kind |-> "target", data |-> P_opt]
\* constraints.append(cp.quad_form(x_target, P_opt) <= 0.75)
constraints2(P_opt) == Append(constraints1, TargetConstraint(P_opt))

\* One iteration in which the Stage 1 status is not "optimal": continue
Stage1Skip ==
    /\ pc = "loop"
    /\ batch_idx <= Len(x)
    /\ \E st \in Statuses(Stage1Feasible(constraints1)) :
        /\ st # "optimal"
        /\ loc' = [NoLocals EXCEPT !.status1 = st, !.constraints = constraints1,
                                   !.variables = ProblemVariables(constraints1, {"P"})]
    /\ outcome' = [outcome EXCEPT ![batch_idx] = "skip1"]
    /\ batch_idx' = batch_idx + 1
    /\ UNCHANGED <<dynamics_model, pc, x, obs, u, nominal_in, nominal_out>>
    /\ UNCHANGED <<maskVars, dmVars>>

\* (the second "continue" is missing: the nominal command is written anyway)
Stage2SkipFallsThrough ==
    /\ pc = "loop"
    /\ batch_idx <= Len(x)
    /\ \E P_opt \in Stage1Optimal(constraints1), un \in NominalOutputs :
        /\ loc' = [NoLocals EXCEPT !.status1 = "optimal", !.P_opt = P_opt,
                                   !.status2 = "optimal_inaccurate",
                                   !.constraints = constraints2(P_opt),
                                   !.variables = ProblemVariables(constraints2(P_opt), {"x_target"})]
        /\ u' = [u EXCEPT ![batch_idx] = un]
    /\ outcome' = [outcome EXCEPT ![batch_idx] = "skip2"]
    /\ batch_idx' = batch_idx + 1
    /\ UNCHANGED <<dynamics_model, pc, x, obs, nominal_in, nominal_out>>
    /\ UNCHANGED <<maskVars, dmVars>>

\* One iteration in which Stage 1 is optimal and the Stage 2 status is not:
\* continue (x_target.value is read and not used)
Stage2Skip ==
    /\ pc = "loop"
    /\ batch_idx <= Len(x)
    /\ \E P_opt \in Stage1Optimal(constraints1) :
        \E st \in Statuses(Stage2Feasible(constraints2(P_opt))) :
            /\ st # "optimal"
            /\ loc' = [NoLocals EXCEPT !.status1 = "optimal", !.P_opt = P_opt, !.status2 = st,
                                       !.constraints = constraints2(P_opt),
                                       !.variables = ProblemVariables(constraints2(P_opt), {"x_target"})]
    /\ outcome' = [outcome EXCEPT ![batch_idx] = "skip2"]
    /\ batch_idx' = batch_idx + 1
    /\ UNCHANGED <<dynamics_model, pc, x, obs, u, nominal_in, nominal_out>>
    /\ UNCHANGED <<maskVars, dmVars>>

\* x_shifted = cat(-(rotation_mat @ x_target_opt), x[batch_idx, 2])
ShiftedState(t, x_target_opt) ==
    LET g == Rotate(t, x_target_opt)
    IN  <<-g[1], -g[2], t>>

\* (the nominal command is written to every row)
NavigateWritesAllRows ==
    /\ pc = "loop"
    /\ batch_idx <= Len(x)
    /\ \E P_opt \in Stage1Optimal(constraints1) :
        \E x_target_opt \in Stage2Optimal(constraints2(P_opt), batch_x, theta), un \in NominalOutputs :
            /\ "optimal" \in Statuses(Stage2Feasible(constraints2(P_opt)))
            /\ loc' = [status1 |-> "optimal", P_opt |-> P_opt, status2 |-> "optimal",
                       x_target_opt |-> x_target_opt,
                       x_shifted |-> ShiftedState(theta, x_target_opt),
                       constraints |-> constraints2(P_opt),
                       variables |-> ProblemVariables(constraints2(P_opt), {"x_target"})]
            /\ nominal_in' = [nominal_in EXCEPT ![batch_idx] = ShiftedState(theta, x_target_opt)]
            /\ nominal_out' = [nominal_out EXCEPT ![batch_idx] = un]
            /\ u' = [i \in 1 .. Len(u) |-> un]
    /\ outcome' = [outcome EXCEPT ![batch_idx] = "nav"]
    /\ batch_idx' = batch_idx + 1
    /\ UNCHANGED <<dynamics_model, pc, x, obs>>
    /\ UNCHANGED <<maskVars, dmVars>>

\* One iteration in which both solves are optimal:
\* u[batch_idx, :] = u_nominal(x_shifted.reshape(1, -1)).squeeze()
Navigate ==
    /\ pc = "loop"
    /\ batch_idx <= Len(x)
    /\ \E P_opt \in Stage1Optimal(constraints1) :
        \E x_target_opt \in Stage2Optimal(constraints2(P_opt), batch_x, theta), un \in NominalOutputs :
            /\ "optimal" \in Statuses(Stage2Feasible(constraints2(P_opt)))
            /\ loc' = [status1 |-> "optimal", P_opt |-> P_opt, status2 |-> "optimal",
                       x_target_opt |-> x_target_opt,
                       x_shifted |-> ShiftedState(theta, x_target_opt),
                       constraints |-> constraints2(P_opt),
                       variables |-> ProblemVariables(constraints2(P_opt), {"x_target"})]
            /\ nominal_in' = [nominal_in EXCEPT ![batch_idx] = ShiftedState(theta, x_target_opt)]
            /\ nominal_out' = [nominal_out EXCEPT ![batch_idx] = un]
            /\ u' = [u EXCEPT ![batch_idx] = un]
    /\ outcome' = [outcome EXCEPT ![batch_idx] = "nav"]
    /\ batch_idx' = batch_idx + 1
    /\ UNCHANGED <<dynamics_model, pc, x, obs>>
    /\ UNCHANGED <<maskVars, dmVars>>

\* u_upper, u_lower = self.dynamics_model.control_limits
u_upper == control_limits(dynamics_model)[1]
u_lower == control_limits(dynamics_model)[2]

\* After the loop: u[:, 0] *= 2.0; u = clamp(u, u_lower, u_upper); return u
Finish ==
    /\ pc = "loop"
    /\ batch_idx = Len(x) + 1
    /\ u' = [i \in 1 .. Len(u) |-> Clamp(ScaleRow0(u[i]), u_lower, u_upper)]
    /\ loc' = NoLocals
    /\ pc' = "done"
    /\ UNCHANGED <<dynamics_model, x, obs, batch_idx, outcome, nominal_in, nominal_out>>
    /\ UNCHANGED <<maskVars, dmVars>>

(***************************************************************************)
(* Specifications                                                          *)
(***************************************************************************)

Init == MaskIdle /\ DmIdle /\ InitCtl
Next ==
    \/ Call
    \/ Stage1Skip
    \/ Stage2Skip
    \/ Navigate
    \/ Finish
Spec == Init /\ [][Next]_vars

InitMaskOnly == InitMask /\ DmIdle /\ CtlIdle
NextMask == EvaluateMasks
SpecMask == InitMaskOnly /\ [][NextMask]_vars

InitData == MaskIdle /\ DmIdle /\ CtlIdle
NextData ==
    \/ ConstructDefault
    \/ ConstructSupplied
    \/ ConstructRejected
    \/ prepare_data
    \/ setup
SpecData == InitData /\ [][NextData]_vars

(***************************************************************************)
(* Properties                                                              *)
(***************************************************************************)

Skipped(i) == outcome[i] \in {"skip1", "skip2"}

\* C1: when u() returns, every component of every row of the command lies
\* within [u_lower, u_upper] inclusive, whatever the solver outcomes were.
C1_ActuatorBounds ==
    pc = "done" =>
        \A i \in 1 .. Len(u) : \A j \in 1 .. dynamics_model.n_controls :
            u_lower[j] <= u[i][j] /\ u[i][j] <= u_upper[j]

\* C1 witness: u() has returned a batch in which a navigated element's
\* scaled nominal command lay outside the limits, so the clamp acted.
C1_Witness ==
    /\ pc = "done"
    /\ \E i \in 1 .. Len(u) : \E j \in 1 .. dynamics_model.n_controls :
        /\ outcome[i] = "nav"
        /\ \/ ScaleRow0(nominal_out[i])[j] < u_lower[j]
           \/ ScaleRow0(nominal_out[i])[j] > u_upper[j]

\* C2: when u() returns, every element has been processed, and an element
\* whose Stage 1 or Stage 2 status was not optimal never reached the nominal
\* controller and carries clamp(scale(zero vector)).
C2_SkipSafety ==
    pc = "done" =>
        /\ batch_idx = Len(x) + 1
        /\ \A i \in 1 .. Len(x) :
            /\ outcome[i] # "pending"
            /\ Skipped(i) =>
                /\ nominal_in[i] = << >>
                /\ u[i] = Clamp(ScaleRow0(Zeros(dynamics_model.n_controls)), u_lower, u_upper)

\* C2 witness: a returned batch in which a skipped element is followed by
\* a navigated one that carries a different command.
C2_Witness ==
    /\ pc = "done"
    /\ \E i, j \in 1 .. Len(x) :
        /\ i < j
        /\ Skipped(i)
        /\ outcome[j] = "nav"
        /\ u[i] # u[j]

\* C3: safe_mask_fn and unsafe_mask_fn are never both true of a point.
C3_Disjoint == mask_pc = "evaluated" => ~(safe_mask /\ unsafe_mask)

\* C3 witness: the masks were evaluated on a point strictly between a face
\* of the box safe_mask_fn excludes and the face of the unsafe box, where
\* both are false.
C3_Witness ==
    /\ mask_pc = "evaluated"
    /\ pt[1] = -21
    /\ pt[2] = 0
    /\ ~safe_mask
    /\ ~unsafe_mask

\* C4: after prepare_data and setup, len(train_data) + len(validation_data)
\* is D * N_samples and len(validation_data) is floor(split * D * N_samples).
C4_SplitCompleteness ==
    dm_pc = "setup" =>
        /\ Len(train_data) + Len(validation_data) = Len(domains) * N_samples
        /\ Len(validation_data) = (Len(domains) * N_samples * split[1]) \div split[2]

\* C5: a supplied domain list with a domain of the wrong number of intervals
\* fails construction, with no domains stored and no dataset ever created;
\* a list whose domains all have N_DIMS intervals is stored unchanged.
C5_MalformedRejected ==
    (arg_given /\ dm_pc # "none") =>
        IF \E d \in 1 .. Len(arg_domains) : Len(arg_domains[d]) # N_DIMS
        THEN dm_pc = "failed" /\ domains = << >> /\ dataset = << >>
        ELSE dm_pc # "failed" /\ domains = arg_domains

\* C5 witness: construction failed on a list whose first domain is well
\* formed and whose second is not.
C5_Witness ==
    /\ dm_pc = "failed"
    /\ Len(arg_domains) = 2
    /\ Len(arg_domains[1]) = N_DIMS
    /\ Len(arg_domains[2]) # N_DIMS

InClosedBox(p, min_x, max_x, min_z, max_z) ==
    min_x <= p[1] /\ p[1] <= max_x /\ min_z <= p[2] /\ p[2] <= max_z
InOpenBox(p, min_x, max_x, min_z, max_z) ==
    min_x < p[1] /\ p[1] < max_x /\ min_z < p[2] /\ p[2] < max_z

\* C7 as stated: a point is safe iff height >= -0.1, it is not in the
\* closed box [-1.1,-0.4] x [-0.5,0.6], not in the closed box
\* [-0.1,1.1] x [0.7,1.5], and its norm is <= 4.5.
C7_ClosedBoxes ==
    mask_pc = "evaluated" =>
        (safe_mask <=>
            /\ pt[2] >= -2
            /\ ~InClosedBox(pt, -22, -8, -10, 12)
            /\ ~InClosedBox(pt, -2, 22, 14, 30)
            /\ NormSq(pt) <= 90 * 90)

\* C7 amended: the same with the two boxes open, so that a point on a face
\* of a box is outside it.
C7_OpenBoxes ==
    mask_pc = "evaluated" =>
        (safe_mask <=>
            /\ pt[2] >= -2
            /\ ~InOpenBox(pt, -22, -8, -10, 12)
            /\ ~InOpenBox(pt, -2, 22, 14, 30)
            /\ NormSq(pt) <= 90 * 90)

\* C7 witness: a point on the left face of the ground obstacle box was
\* evaluated and found safe.
C7_Witness ==
    /\ mask_pc = "evaluated"
    /\ pt[1] = -22
    /\ pt[2] = 0
    /\ safe_mask

\* C8: for an element whose two solves were optimal, the shifted state has
\* the length of x_i, positions -x_target_global, the heading of x_i, and
\* every remaining component of x_i.
C8_ShiftedStateFull ==
    (pc = "loop" /\ loc.status2 = "optimal") =>
        LET xi == x[batch_idx - 1]
            g == Rotate(xi[3], loc.x_target_opt)
        IN  /\ Len(loc.x_shifted) = Len(xi)
            /\ loc.x_shifted[1] = -g[1]
            /\ loc.x_shifted[2] = -g[2]
            /\ loc.x_shifted[3] = xi[3]
            /\ \A j \in 4 .. Len(xi) : loc.x_shifted[j] = xi[j]

\* C9: the Stage 2 problem has x_target as its only variable and
\* x_target^T P_opt x_target <= 0.75 as its only constraint.
C9_Stage2OnlyTarget ==
    (pc = "loop" /\ loc.status2 # "None") =>
        /\ loc.variables = {"x_target"}
        /\ loc.constraints = <<TargetConstraint(loc.P_opt)>>

\* The shifted states element i alone can produce
ElementShiftedStates(i) ==
    LET cs1 == Stage1Constraints(obs[i])
    IN  UNION { {ShiftedState(x[i][3], xt) :
                   xt \in Stage2Optimal(Append(cs1, TargetConstraint(P)),
                                        <<x[i][1], x[i][2]>>, x[i][3])} :
                P \in Stage1Optimal(cs1) }

\* C10: the command returned for element i is the one a batch holding
\* element i alone returns under the same outcomes: clamp(scale(.)) of the
\* nominal command for a shifted state computed from element i's own state
\* and observation, or of the zero vector when the element was skipped.
C10_NoCrossElement ==
    pc = "done" =>
        \A i \in 1 .. Len(x) :
            /\ outcome[i] = "nav" =>
                /\ nominal_in[i] \in ElementShiftedStates(i)
                /\ u[i] = Clamp(ScaleRow0(nominal_out[i]), u_lower, u_upper)
            /\ outcome[i] # "nav" =>
                u[i] = Clamp(ScaleRow0(Zeros(dynamics_model.n_controls)), u_lower, u_upper)

\* C10 witness: a returned batch in which a navigated element is followed
\* by a skipped one, the two in the same state with the same observation,
\* and the two commands differ.
C10_Witness ==
    /\ pc = "done"
    /\ \E i, j \in 1 .. Len(x) :
        /\ i < j
        /\ x[i] = x[j]
        /\ obs[i] = obs[j]
        /\ outcome[i] = "nav"
        /\ Skipped(j)
        /\ u[i] # u[j]

====
